---------------------------- MODULE Spec2Model ----------------------------
(***************************************************************************)
(* A model of the two components of the repository:                        *)
(*   - NetflixDataLoader        (src/data_loader.py)                       *)
(*   - NetflixExploratoryAnalysis (src/exploratory_analysis.py)            *)
(* A table (pandas DataFrame) is a record                                  *)
(*   [columns : sequence of column names,                                  *)
(*    dtypes  : column name -> dtype,                                      *)
(*    rows    : sequence of [id : row label, cells : column name -> cell]] *)
(* and a cell is a tagged record: NA (NaN / None / NaT), Num(n), Str(s),   *)
(* Bool(b) or Ts(d, t) (a timestamp: calendar day d, time of day t).       *)
(***************************************************************************)
EXTENDS Integers, Sequences, FiniteSets, TLC

VARIABLES
    data,             \* NetflixDataLoader.data: None or a table
    ret,              \* what the last call returned (or that it raised)
    loads,            \* history: [ok, failed]: a load_csv call has succeeded / failed
    frames,           \* the heap of DataFrame objects: reference -> table
    selfData,         \* NetflixExploratoryAnalysis.data: a reference
    numerical_cols,   \* NetflixExploratoryAnalysis.numerical_cols
    categorical_cols, \* NetflixExploratoryAnalysis.categorical_cols
    given,            \* history: the table the analyzer was constructed from
    callerChanged     \* history: the caller has changed its own table

vars == <<data, ret, loads, frames, selfData, numerical_cols,
          categorical_cols, given, callerChanged>>

loaderVars == <<data, loads>>
analyzerVars == <<frames, selfData, numerical_cols, categorical_cols, given,
                  callerChanged>>

----------------------------------------------------------------------------
(* Bounds *)

MaxRows == 2
MaxIqrLen == 4

----------------------------------------------------------------------------
(* Cells and tables *)

None == [k |-> "None"]
NA == [k |-> "na"]
Num(n) == [k |-> "num", n |-> n]
Str(s) == [k |-> "str", s |-> s]
Bool(b) == [k |-> "bool", b |-> b]
Ts(d, t) == [k |-> "ts", d |-> d, t |-> t]

isnull(c) == c.k = "na"

Range(s) == {s[i] : i \in 1..Len(s)}

RECURSIVE SelectSeq2(_, _)
\* the subsequence of rows whose position is in keep, in the original order
SelectSeq2(s, keep) ==
    IF s = <<>> THEN <<>>
    ELSE LET n == Len(s)
             front == SelectSeq2(SubSeq(s, 1, n - 1), keep)
         IN IF n \in keep THEN Append(front, s[n]) ELSE front

\* the cells a column of each dtype can hold
DateStrings == {"2024-01-01 08:00", "2024-01-01 20:00", "2024-01-02 08:00"}

CellsOf(dtype) ==
    CASE dtype = "float64" -> {NA, Num(1), Num(2)}
      [] dtype = "object" -> {NA, Str("Drama")}
      [] dtype = "text_date" -> {Str(s) : s \in DateStrings}
      [] dtype = "bool" -> {Bool(TRUE)}
      [] dtype = "datetime64" -> {NA, Ts(1, 8)}

\* the pandas dtype of a column kind ("text_date" is an object column of date strings)
DtypeOf(kind) == IF kind = "text_date" THEN "object" ELSE kind

\* all tables with the given columns and column kinds and at most maxRows rows,
\* rows labelled 0, 1, ... as read_csv or a plain DataFrame constructor labels them
TablesOf(columns, kinds, maxRows) ==
    LET cols == Range(columns)
        RowCells == {f \in [cols -> UNION {CellsOf(kinds[c]) : c \in cols}] :
                        \A c \in cols : f[c] \in CellsOf(kinds[c])}
    IN UNION { { [columns |-> columns,
                  dtypes |-> [c \in cols |-> DtypeOf(kinds[c])],
                  rows |-> [i \in 1..n |-> [id |-> i - 1, cells |-> cs[i]]]] :
                    cs \in [1..n -> RowCells] } : n \in 0..maxRows }

\* DataFrame.isnull().sum(): per column, the number of missing cells
MissingCounts(t) ==
    [c \in Range(t.columns) |->
        Cardinality({i \in 1..Len(t.rows) : isnull(t.rows[i].cells[c])})]

----------------------------------------------------------------------------
(* NetflixDataLoader *)

LoaderColumns == <<"user_rating", "content_genre">>
LoaderKinds == [user_rating |-> "float64", content_genre |-> "object"]
LoaderTables == TablesOf(LoaderColumns, LoaderKinds, MaxRows)

Filenames == {"netflix.csv", "absent.csv", "corrupt.csv"}

\* pd.read_csv(filepath): the table of a readable file, or the exception raised
read_csv(filename) ==
    CASE filename = "netflix.csv" -> {[exc |-> "none", table |-> t] : t \in LoaderTables}
      [] filename = "absent.csv" -> {[exc |-> "FileNotFoundError", table |-> None]}
      [] filename = "corrupt.csv" -> {[exc |-> "ParserError", table |-> None]}

ReturnNone(op, args) == [op |-> op, args |-> args, kind |-> "None", val |-> None]
ReturnFrame(op, args, t) == [op |-> op, args |-> args, kind |-> "DataFrame", val |-> t]
ReturnDict(op, args, d) == [op |-> op, args |-> args, kind |-> "dict", val |-> d]
Raise(op, args, exc) == [op |-> op, args |-> args, kind |-> "raise", val |-> exc]

\* mutant: a failed load leaves an empty table behind instead of no table
load_csv_resets(d, filename, outcome) ==
    IF outcome.exc = "none"
    THEN [data |-> outcome.table,
          ret |-> ReturnFrame("load_csv", [filename |-> filename], outcome.table)]
    ELSE [data |-> [columns |-> <<>>, dtypes |-> <<>>, rows |-> <<>>],
          ret |-> ReturnNone("load_csv", [filename |-> filename])]

\* each method: the new value of self.data and what the call returns
load_csv(d, filename, outcome) ==
    IF outcome.exc = "none"
    THEN [data |-> outcome.table,
          ret |-> ReturnFrame("load_csv", [filename |-> filename], outcome.table)]
    ELSE [data |-> d, ret |-> ReturnNone("load_csv", [filename |-> filename])]

get_basic_info(d) ==
    IF d = None
    THEN [data |-> d, ret |-> ReturnDict("get_basic_info", <<>>, <<>>)]
    ELSE [data |-> d,
          ret |-> ReturnDict("get_basic_info", <<>>,
                     [rows |-> Len(d.rows),
                      columns |-> Len(d.columns),
                      column_names |-> d.columns,
                      missing_values |-> MissingCounts(d),
                      dtypes |-> d.dtypes])]

\* DataFrame.head(n): the first n rows; all but the last -n rows when n < 0
head(t, n) ==
    LET len == Len(t.rows)
        k == IF n >= 0 THEN (IF n < len THEN n ELSE len)
             ELSE (IF len + n > 0 THEN len + n ELSE 0)
    IN [t EXCEPT !.rows = SubSeq(t.rows, 1, k)]

show_sample(d, n) ==
    IF d = None
    THEN [data |-> d, ret |-> ReturnNone("show_sample", [n |-> n])]
    ELSE [data |-> d, ret |-> ReturnFrame("show_sample", [n |-> n], head(d, n))]

\* mutant: dropna(how='all'), dropping only the rows whose cells are all missing
dropna_how_all(t) ==
    [t EXCEPT !.rows =
        SelectSeq2(t.rows, {i \in 1..Len(t.rows) :
                             \E c \in Range(t.columns) : ~isnull(t.rows[i].cells[c])})]

\* DataFrame.dropna(): a new table without the rows that hold a missing cell
dropna(t) ==
    [t EXCEPT !.rows =
        SelectSeq2(t.rows, {i \in 1..Len(t.rows) :
                             \A c \in Range(t.columns) : ~isnull(t.rows[i].cells[c])})]

\* DataFrame.fillna(v): a new table with every missing cell replaced by v
fillna(t, v) ==
    [t EXCEPT !.rows =
        [i \in 1..Len(t.rows) |->
            [t.rows[i] EXCEPT !.cells =
                [c \in Range(t.columns) |->
                    IF isnull(t.rows[i].cells[c]) THEN v ELSE t.rows[i].cells[c]]]]]

\* mutant: the cleaning is done in place (inplace=True), on the current table
handle_missing_values_inplace(d, strategy) ==
    LET args == [strategy |-> strategy] IN
    IF d = None
    THEN [data |-> d, ret |-> ReturnNone("handle_missing_values", args)]
    ELSE IF strategy = "drop"
    THEN [data |-> dropna(d),
          ret |-> ReturnFrame("handle_missing_values", args, dropna(d))]
    ELSE IF strategy = "fill"
    THEN [data |-> fillna(d, Num(0)),
          ret |-> ReturnFrame("handle_missing_values", args, fillna(d, Num(0)))]
    ELSE [data |-> d, ret |-> ReturnFrame("handle_missing_values", args, d)]

handle_missing_values(d, strategy) ==
    LET args == [strategy |-> strategy] IN
    IF d = None
    THEN [data |-> d, ret |-> ReturnNone("handle_missing_values", args)]
    ELSE IF strategy = "drop"
    THEN [data |-> d, ret |-> ReturnFrame("handle_missing_values", args, dropna(d))]
    ELSE IF strategy = "fill"
    THEN [data |-> d, ret |-> ReturnFrame("handle_missing_values", args, fillna(d, Num(0)))]
    ELSE [data |-> d, ret |-> ReturnFrame("handle_missing_values", args, d)]

\* mutant: the comparison treats two missing values as equal
eq_missing_equal(cell, value) == cell = value

\* the elementwise ==: a missing cell compares unequal to everything, itself included
eq(cell, value) == ~isnull(cell) /\ ~isnull(value) /\ cell = value

filter_by_column(d, column, value) ==
    LET args == [column |-> column, value |-> value] IN
    IF d = None
    THEN [data |-> d, ret |-> ReturnNone("filter_by_column", args)]
    ELSE IF column \notin Range(d.columns)
    THEN [data |-> d, ret |-> ReturnNone("filter_by_column", args)]
    ELSE LET mask == [i \in 1..Len(d.rows) |-> eq(d.rows[i].cells[column], value)]
         IN [data |-> d,
             ret |-> ReturnFrame("filter_by_column", args,
                        [d EXCEPT !.rows =
                            SelectSeq2(d.rows, {i \in 1..Len(d.rows) : mask[i]})])]

Strategies == {"drop", "fill", "median"}
FilterColumns == {"user_rating", "content_genre", "device_type"}
FilterValues == {Num(1), Num(2), Str("Drama"), Str("Comedy"), NA}
DefaultSampleSize == 5
SampleSizes == (-1 .. MaxRows) \cup {DefaultSampleSize}

\* the caller holds no result of a call
NoCall == [op |-> "none", args |-> <<>>, kind |-> "None", val |-> None]

\* the caller is through with the result of the last call and goes on; every
\* method is called from there
Continue ==
    /\ ret # NoCall
    /\ ret' = NoCall
    /\ UNCHANGED <<data, loads, frames, selfData, numerical_cols, categorical_cols,
                   given, callerChanged>>

LoadCsv ==
    /\ ret = NoCall
    /\ \E filename \in Filenames : \E outcome \in read_csv(filename) :
        LET r == load_csv(data, filename, outcome) IN
        /\ data' = r.data
        /\ ret' = r.ret
        /\ loads' = IF outcome.exc = "none" THEN [loads EXCEPT !.ok = TRUE]
                     ELSE [loads EXCEPT !.failed = TRUE]
        /\ UNCHANGED analyzerVars

GetBasicInfo ==
    /\ ret = NoCall
    /\ LET r == get_basic_info(data) IN
        /\ data' = r.data
        /\ ret' = r.ret
    /\ UNCHANGED <<loads, analyzerVars>>

ShowSample ==
    /\ ret = NoCall
    /\ \E n \in SampleSizes :
        LET r == show_sample(data, n) IN
        /\ data' = r.data
        /\ ret' = r.ret
        /\ UNCHANGED <<loads, analyzerVars>>

HandleMissingValues ==
    /\ ret = NoCall
    /\ \E strategy \in Strategies :
        LET r == handle_missing_values(data, strategy) IN
        /\ data' = r.data
        /\ ret' = r.ret
        /\ UNCHANGED <<loads, analyzerVars>>

FilterByColumn ==
    /\ ret = NoCall
    /\ \E column \in FilterColumns : \E value \in FilterValues :
        LET r == filter_by_column(data, column, value) IN
        /\ data' = r.data
        /\ ret' = r.ret
        /\ UNCHANGED <<loads, analyzerVars>>

\* the analyzer's state while only the loader is exercised
IdleAnalyzer ==
    /\ frames = <<>>
    /\ selfData = 0
    /\ numerical_cols = <<>>
    /\ categorical_cols = <<>>
    /\ given = None
    /\ callerChanged = FALSE

InitLoader ==
    /\ data = None
    /\ ret = NoCall
    /\ loads = [ok |-> FALSE, failed |-> FALSE]
    /\ IdleAnalyzer

NextLoader ==
    \/ Continue
    \/ LoadCsv
    \/ GetBasicInfo
    \/ ShowSample
    \/ HandleMissingValues
    \/ FilterByColumn

SpecLoader == InitLoader /\ [][NextLoader]_vars

----------------------------------------------------------------------------
(* NetflixExploratoryAnalysis: construction *)

callerRef == 1     \* the reference the caller holds to its own DataFrame
copyRef == 2       \* the reference of the DataFrame that data.copy() allocates

\* mutant: self.data = data, the analyzer shares the caller's DataFrame
no_copy(fr, r) == [frames |-> fr, ref |-> r]

\* DataFrame.copy(): a new DataFrame object with the same columns and cells
copy(fr, r) ==
    [frames |-> [x \in DOMAIN fr \cup {copyRef} |-> IF x = copyRef THEN fr[r] ELSE fr[x]],
     ref |-> copyRef]

\* the columns of t, in order, whose dtype is in dtypes
RECURSIVE ColumnsOfDtype(_, _, _)
ColumnsOfDtype(columns, dtypeOf, dtypes) ==
    IF columns = <<>> THEN <<>>
    ELSE LET rest == ColumnsOfDtype(Tail(columns), dtypeOf, dtypes)
         IN IF dtypeOf[Head(columns)] \in dtypes THEN <<Head(columns)>> \o rest ELSE rest

NumberDtypes == {"int64", "float64"}

\* mutant: whatever is not numerical is taken as categorical
select_dtypes_exclude_number(t, include) ==
    IF include = "number" THEN ColumnsOfDtype(t.columns, t.dtypes, NumberDtypes)
    ELSE ColumnsOfDtype(t.columns, t.dtypes,
                        {t.dtypes[c] : c \in Range(t.columns)} \ NumberDtypes)

\* data.select_dtypes(include=...).columns.tolist()
select_dtypes(t, include) ==
    IF include = "number" THEN ColumnsOfDtype(t.columns, t.dtypes, NumberDtypes)
    ELSE ColumnsOfDtype(t.columns, t.dtypes, {include})

\* NetflixExploratoryAnalysis(data): the heap and the fields after construction
__init__(fr, dataRef) ==
    LET c == copy(fr, dataRef) IN
    [frames |-> c.frames,
     selfData |-> c.ref,
     numerical_cols |-> select_dtypes(fr[dataRef], "number"),
     categorical_cols |-> select_dtypes(fr[dataRef], "object")]

\* the tables an analyzer is constructed from
ViewingColumns == <<"watch_duration", "watch_date">>
ProfileColumns == <<"is_premium", "content_genre", "added_on">>
AnalyzerTables ==
    TablesOf(ViewingColumns, [watch_duration |-> "float64", watch_date |-> "text_date"],
             MaxRows)
    \cup TablesOf(ProfileColumns,
                  [is_premium |-> "bool", content_genre |-> "object",
                   added_on |-> "datetime64"],
                  MaxRows)

IdleLoader ==
    /\ data = None
    /\ loads = [ok |-> FALSE, failed |-> FALSE]

\* the analyzer constructed from table t
Constructed(t) ==
    LET a == __init__([r \in {callerRef} |-> t], callerRef) IN
    /\ frames = a.frames
    /\ selfData = a.selfData
    /\ numerical_cols = a.numerical_cols
    /\ categorical_cols = a.categorical_cols
    /\ given = t
    /\ callerChanged = FALSE
    /\ ret = NoCall
    /\ IdleLoader

InitAnalyzer == \E t \in AnalyzerTables : Constructed(t)

----------------------------------------------------------------------------
(* NetflixExploratoryAnalysis: series helpers *)

\* self.data[column].dropna(): the non-missing cells of a column with their row labels
SeriesDropna(t, column) ==
    LET keep == {i \in 1..Len(t.rows) : ~isnull(t.rows[i].cells[column])}
        kept == SelectSeq2(t.rows, keep)
    IN [i \in 1..Len(kept) |-> [id |-> kept[i].id, v |-> kept[i].cells[column]]]

RECURSIVE Insert(_, _)
Insert(sorted, x) ==
    IF sorted = <<>> THEN <<x>>
    ELSE IF x <= Head(sorted) THEN <<x>> \o sorted
    ELSE <<Head(sorted)>> \o Insert(Tail(sorted), x)

RECURSIVE Sort(_)
\* the numbers of a sequence in ascending order
Sort(xs) == IF xs = <<>> THEN <<>> ELSE Insert(Sort(Tail(xs)), Head(xs))

RECURSIVE Sum(_)
Sum(xs) == IF xs = <<>> THEN 0 ELSE Head(xs) + Sum(Tail(xs))

\* mutant: interpolation='lower', the order statistic at or below the position
quantile_x4_lower(xs, quarters) ==
    LET sorted == Sort(xs)
        pos == quarters * (Len(xs) - 1)
    IN 4 * sorted[(pos \div 4) + 1]

\* Series.quantile(quarters / 4) of a non-empty series of numbers, times 4:
\* linear interpolation between the order statistics around (n - 1) * q
quantile_x4(xs, quarters) ==
    LET sorted == Sort(xs)
        pos == quarters * (Len(xs) - 1)
        i == (pos \div 4) + 1
        frac == pos % 4
    IN IF frac = 0 THEN 4 * sorted[i]
       ELSE 4 * sorted[i] + frac * (sorted[i + 1] - sorted[i])

----------------------------------------------------------------------------
(* NetflixExploratoryAnalysis: the methods.  Each is the set of outcomes of *)
(* a call: the table self.data refers to afterwards and what the call       *)
(* returns or raises.                                                       *)

Outcome(t, r) == [table |-> t, ret |-> r]
ReturnTuple(op, args, outliers, stats) ==
    [op |-> op, args |-> args, kind |-> "tuple",
     val |-> [outliers |-> outliers, stats |-> stats]]

AllNumeric(t, cols) == \A c \in Range(cols) : t.dtypes[c] \in NumberDtypes

\* count, min and max of the describe() table (mean, std, the quartiles and the
\* added variance, skewness and kurtosis rows are real numbers, not represented)
Describe(t, cols) ==
    [c \in Range(cols) |->
        LET xs == SeriesDropna(t, c)
            ns == {xs[i].v.n : i \in 1..Len(xs)}
        IN [count |-> Len(xs),
            min |-> IF ns = {} THEN NA ELSE Num(CHOOSE m \in ns : \A x \in ns : m <= x),
            max |-> IF ns = {} THEN NA ELSE Num(CHOOSE m \in ns : \A x \in ns : m >= x)]]

generate_statistical_summary(t, ncols) ==
    LET op == "generate_statistical_summary" IN
    IF ncols = <<>>
    THEN \* describe() of a DataFrame without columns
         {Outcome(t, Raise(op, <<>>, "ValueError"))}
    ELSE IF AllNumeric(t, ncols)
    THEN {Outcome(t, ReturnFrame(op, <<>>, Describe(t, ncols)))}
    ELSE \* a column of numerical_cols now holds datetimes: var() of datetimes
         \* raises or the column is left out, depending on the library version
         {Outcome(t, Raise(op, <<>>, "TypeError")),
          Outcome(t, ReturnFrame(op, <<>>,
                     Describe(t, ColumnsOfDtype(ncols, t.dtypes, NumberDtypes))))}

analyze_distributions(t, ncols) ==
    LET op == "analyze_distributions" IN
    IF ncols = <<>>
    THEN \* plt.subplots(0, 2)
         {Outcome(t, Raise(op, <<>>, "ValueError"))}
    ELSE {Outcome(t, ReturnNone(op, <<>>))}

CorrMethods == {"pearson", "spearman", "kendall"}

\* the labels of the correlation matrix (its entries are real numbers, not represented)
correlation_analysis(t, ncols, method) ==
    LET op == "correlation_analysis"
        args == [method |-> method]
    IN IF method \notin CorrMethods
       THEN {Outcome(t, Raise(op, args, "ValueError"))}
       ELSE IF ncols # <<>> /\ AllNumeric(t, ncols)
       THEN {Outcome(t, ReturnFrame(op, args, [columns |-> ncols]))}
       ELSE \* an empty matrix (the heat map of no cells) or datetimes among the
            \* columns: raises or not, depending on the library version
            {Outcome(t, Raise(op, args, "ValueError")),
             Outcome(t, ReturnFrame(op, args, [columns |-> ncols]))}

ZThreshold == 3

\* mutant: the bounds themselves count as outside
outside_or_on(x8, lower8, upper8) == x8 <= lower8 \/ x8 >= upper8

\* (data < lower_bound) | (data > upper_bound), all three times 8
outside(x8, lower8, upper8) == x8 < lower8 \/ x8 > upper8

\* the row labels of the entries of a series at the positions hits, in series order
Flagged(xs, hits) ==
    LET hit == SelectSeq2(xs, hits)
    IN [i \in 1..Len(hit) |-> hit[i].id]

\* the statistics of the 'iqr' branch for a non-empty series of numbers; the
\* bounds are kept times 8 and the percentage as <<numerator, denominator>>
IqrReport(xs) ==
    LET ns == [i \in 1..Len(xs) |-> xs[i].v.n]
        Q1 == quantile_x4(ns, 1)
        Q3 == quantile_x4(ns, 3)
        IQR == Q3 - Q1
        lower8 == 2 * Q1 - 3 * IQR
        upper8 == 2 * Q3 + 3 * IQR
        outliers == Flagged(xs, {i \in 1..Len(xs) : outside(8 * ns[i], lower8, upper8)})
    IN [outliers |-> outliers,
        stats |-> [method |-> "IQR",
                   lower_bound_x8 |-> lower8,
                   upper_bound_x8 |-> upper8,
                   n_outliers |-> Len(outliers),
                   outlier_percentage |-> <<100 * Len(outliers), Len(xs)>>]]

\* the 'zscore' branch: |x - mean| / std > 3 with the population std, that is
\* (n*x - S)^2 > 9 * (n*SS - S^2); a zero std gives NaN scores, which flag nothing
ZscoreReport(xs) ==
    LET ns == [i \in 1..Len(xs) |-> xs[i].v.n]
        n == Len(xs)
        S == Sum(ns)
        SS == Sum([i \in 1..n |-> ns[i] * ns[i]])
        outliers == Flagged(xs, {i \in 1..n :
                        (n * ns[i] - S) * (n * ns[i] - S) >
                            ZThreshold * ZThreshold * (n * SS - S * S)})
    IN [outliers |-> outliers,
        stats |-> [method |-> "Z-score",
                   threshold |-> ZThreshold,
                   n_outliers |-> Len(outliers),
                   outlier_percentage |-> <<100 * Len(outliers), Len(xs)>>]]

\* the sequences of the members of a set of row labels, in ascending order
Ascending(ids) == Sort(CHOOSE seq \in [1..Cardinality(ids) -> ids] : Range(seq) = ids)

\* a result that the library decides and the model does not represent
Unspecified == <<"unspecified">>

\* mutant: the guard looks at the column's current dtype
not_numerical_now(t, ncols, column) ==
    column \notin Range(t.columns) \/ t.dtypes[column] \notin NumberDtypes

\* column not in self.numerical_cols
not_numerical(t, ncols, column) == column \notin Range(ncols)

detect_outliers(t, ncols, column, method) ==
    LET op == "detect_outliers"
        args == [column |-> column, method |-> method]
    IN IF not_numerical(t, ncols, column)
       THEN {Outcome(t, ReturnTuple(op, args, <<>>, <<>>))}
       ELSE LET xs == SeriesDropna(t, column) IN
            IF method \notin {"iqr", "zscore"}
            THEN \* stats_dict is read without having been assigned
                 {Outcome(t, Raise(op, args, "UnboundLocalError"))}
            ELSE IF xs = <<>>
            THEN \* len(outliers) / len(data) with len(data) = 0
                 {Outcome(t, Raise(op, args, "ZeroDivisionError"))}
            ELSE IF t.dtypes[column] \in NumberDtypes
            THEN LET r == IF method = "iqr" THEN IqrReport(xs) ELSE ZscoreReport(xs)
                 IN {Outcome(t, ReturnTuple(op, args, r.outliers, r.stats))}
            ELSE \* the column now holds datetimes: the call goes on past the
                 \* guard; whether the library's quantile and zscore take
                 \* datetimes, and which rows they flag, is the library's
                 {Outcome(t, Raise(op, args, "TypeError")),
                  Outcome(t, ReturnTuple(op, args, Unspecified,
                             [method |-> IF method = "iqr" THEN "IQR" ELSE "Z-score"]))}

\* Series.value_counts(): the count of each non-missing value of a column
value_counts(t, column) ==
    LET xs == SeriesDropna(t, column)
        values == {xs[i].v : i \in 1..Len(xs)}
    IN [v \in values |-> Cardinality({i \in 1..Len(xs) : xs[i].v = v})]

\* the values that value_counts() may list first: those of the highest count
\* (the order among equal counts is the library's)
MostCommon(counts) ==
    {v \in DOMAIN counts : \A w \in DOMAIN counts : counts[w] <= counts[v]}

categorical_analysis(t, ccols) ==
    LET op == "categorical_analysis"
        cols == Range(ccols)
    IN IF \E c \in cols : DOMAIN value_counts(t, c) = {}
       THEN \* value_counts.index[0] of an empty value_counts
            {Outcome(t, Raise(op, <<>>, "IndexError"))}
       ELSE {Outcome(t, ReturnDict(op, <<>>,
                [c \in cols |->
                    LET counts == value_counts(t, c) IN
                    [unique_values |-> Cardinality(DOMAIN counts),
                     most_common |-> first[c],
                     most_common_count |-> counts[first[c]],
                     distribution |-> counts]])) :
             first \in {f \in [cols -> UNION {DOMAIN value_counts(t, c) : c \in cols}] :
                          \A c \in cols : f[c] \in MostCommon(value_counts(t, c))}}

\* the timestamp a date string denotes: calendar day (an ordinal) and time of day
ParseDate(s) ==
    CASE s = "2024-01-01 08:00" -> Ts(1, 8)
      [] s = "2024-01-01 20:00" -> Ts(1, 20)
      [] s = "2024-01-02 08:00" -> Ts(2, 8)

\* pd.to_datetime of one cell: a number counts nanoseconds from the epoch (day 0)
to_datetime_cell(cell) ==
    CASE cell.k = "na" -> NA
      [] cell.k = "ts" -> cell
      [] cell.k = "str" -> ParseDate(cell.s)
      [] cell.k = "num" -> Ts(0, cell.n)

\* whether pd.to_datetime accepts the column
Convertible(t, column) ==
    /\ t.dtypes[column] # "bool"
    /\ \A i \in 1..Len(t.rows) :
          t.rows[i].cells[column].k = "str" => t.rows[i].cells[column].s \in DateStrings

\* self.data[column] = pd.to_datetime(self.data[column])
to_datetime(t, column) ==
    [t EXCEPT !.dtypes[column] = "datetime64",
              !.rows = [i \in 1..Len(t.rows) |->
                          [t.rows[i] EXCEPT !.cells[column] =
                              to_datetime_cell(t.rows[i].cells[column])]]]

\* mutant: the group key keeps the time of day
dt_date_keeps_time(cell) == cell.d * 100 + cell.t

\* Series.dt.date of one timestamp: its calendar day
dt_date(cell) == cell.d

RECURSIVE Gcd(_, _)
Gcd(a, b) == IF b = 0 THEN a ELSE Gcd(b, a % b)

\* the quotient n / d in lowest terms, as <<numerator, denominator>>
Quotient(n, d) == <<n \div Gcd(n, d), d \div Gcd(n, d)>>

\* groupby(date)[value_column].agg(['mean', 'sum', 'count']): one row per group
\* key, in ascending key order; rows with a missing key belong to no group
Aggregate(t, date_column, value_column) ==
    LET dated == {i \in 1..Len(t.rows) : ~isnull(t.rows[i].cells[date_column])}
        keys == {dt_date(t.rows[i].cells[date_column]) : i \in dated}
        order == Ascending(keys)
    IN [j \in 1..Len(order) |->
          LET members == SelectSeq2(t.rows,
                            {i \in dated : dt_date(t.rows[i].cells[date_column]) = order[j]})
              present == SelectSeq(members, LAMBDA r : ~isnull(r.cells[value_column]))
              numbers == [i \in 1..Len(present) |-> present[i].cells[value_column].n]
          IN [date |-> order[j],
              mean |-> IF numbers = <<>> THEN NA
                       ELSE [k |-> "ratio", q |-> Quotient(Sum(numbers), Len(numbers))],
              sum |-> Sum(numbers),
              count |-> Len(numbers)]]

time_series_analysis(t, date_column, value_column) ==
    LET op == "time_series_analysis"
        args == [date_column |-> date_column, value_column |-> value_column]
    IN IF date_column \notin Range(t.columns)
       THEN {Outcome(t, Raise(op, args, "KeyError"))}
       ELSE IF ~Convertible(t, date_column)
       THEN {Outcome(t, Raise(op, args, "ValueError"))}
       ELSE LET converted == to_datetime(t, date_column) IN
            IF value_column \notin Range(converted.columns)
            THEN {Outcome(converted, Raise(op, args, "KeyError"))}
            ELSE IF converted.dtypes[value_column] \in NumberDtypes
            THEN {Outcome(converted,
                     ReturnFrame(op, args, Aggregate(converted, date_column, value_column)))}
            ELSE \* mean and sum of strings or datetimes raise; with no group to
                 \* aggregate the library may return the empty table instead
                 {Outcome(converted, Raise(op, args, "TypeError"))}
                 \cup (IF \A i \in 1..Len(converted.rows) :
                            isnull(converted.rows[i].cells[date_column])
                       THEN {Outcome(converted, ReturnFrame(op, args, <<>>))}
                       ELSE {})

----------------------------------------------------------------------------
(* NetflixExploratoryAnalysis: the actions *)

\* the analyzer's table becomes o.table and the call's result o.ret
Apply(o) ==
    /\ ret = NoCall
    /\ frames' = [frames EXCEPT ![selfData] = o.table]
    /\ ret' = o.ret
    /\ UNCHANGED <<selfData, numerical_cols, categorical_cols, given, callerChanged,
                   loaderVars>>

GenerateStatisticalSummary ==
    \E o \in generate_statistical_summary(frames[selfData], numerical_cols) : Apply(o)

AnalyzeDistributions ==
    \E o \in analyze_distributions(frames[selfData], numerical_cols) : Apply(o)

CorrelationAnalysis ==
    \E method \in {"spearman", "cosine"} :
        \E o \in correlation_analysis(frames[selfData], numerical_cols, method) : Apply(o)

OutlierColumns == {"watch_duration", "watch_date"}
OutlierMethods == {"iqr", "zscore", "mad"}

DetectOutliers ==
    \E column \in OutlierColumns : \E method \in OutlierMethods :
        \E o \in detect_outliers(frames[selfData], numerical_cols, column, method) : Apply(o)

CategoricalAnalysis ==
    \E o \in categorical_analysis(frames[selfData], categorical_cols) : Apply(o)

DateColumns == {"watch_date", "watch_duration", "content_genre"}
ValueColumns == {"watch_duration", "watch_date", "user_rating"}

\* mutant: the classification is recomputed after the conversion
TimeSeriesAnalysisReclassifies ==
    \E date_column \in DateColumns : \E value_column \in ValueColumns :
        \E o \in time_series_analysis(frames[selfData], date_column, value_column) :
            /\ ret = NoCall
            /\ frames' = [frames EXCEPT ![selfData] = o.table]
            /\ ret' = o.ret
            /\ numerical_cols' = select_dtypes(o.table, "number")
            /\ categorical_cols' = select_dtypes(o.table, "object")
            /\ UNCHANGED <<selfData, given, callerChanged, loaderVars>>

TimeSeriesAnalysis ==
    \E date_column \in DateColumns : \E value_column \in ValueColumns :
        \E o \in time_series_analysis(frames[selfData], date_column, value_column) :
            Apply(o)

\* the caller changes its own DataFrame in place after the construction:
\* it fills the missing values with 0 and relabels its columns
CallerChange ==
    /\ ret = NoCall
    /\ ~callerChanged
    /\ frames' = [frames EXCEPT ![callerRef] =
                    [fillna(@, Num(0)) EXCEPT !.dtypes = [c \in DOMAIN @ |-> "object"]]]
    /\ callerChanged' = TRUE
    /\ UNCHANGED <<ret, selfData, numerical_cols, categorical_cols, given, loaderVars>>

NextAnalyzer ==
    \/ Continue
    \/ GenerateStatisticalSummary
    \/ AnalyzeDistributions
    \/ CorrelationAnalysis
    \/ DetectOutliers
    \/ CategoricalAnalysis
    \/ TimeSeriesAnalysis
    \/ CallerChange

SpecAnalyzer == InitAnalyzer /\ [][NextAnalyzer]_vars

----------------------------------------------------------------------------
(* Outlier detection on longer columns *)

RatingColumns == <<"watch_duration">>
SpecExample == <<1, 2, 3, 4, 5, 1000>>
RatingCells == {NA, Num(1), Num(2), Num(3), Num(1000)}

\* the table with the one column "watch_duration" holding cells
RatingTable(cells) ==
    [columns |-> RatingColumns,
     dtypes |-> [c \in Range(RatingColumns) |-> "float64"],
     rows |-> [i \in 1..Len(cells) |->
                 [id |-> i - 1, cells |-> [c \in Range(RatingColumns) |-> cells[i]]]]]

RatingTables ==
    {RatingTable(cells) : cells \in UNION {[1..n -> RatingCells] : n \in 0..MaxIqrLen}}
    \cup {RatingTable([i \in 1..Len(SpecExample) |-> Num(SpecExample[i])])}

InitIqr == \E t \in RatingTables : Constructed(t)

NextIqr == Continue \/ DetectOutliers

SpecIqr == InitIqr /\ [][NextIqr]_vars

----------------------------------------------------------------------------
(* Claims about the loader, checked under SpecLoader *)

\* the positions of the rows of t that hold no missing cell
CompleteRows(t) ==
    {i \in 1..Len(t.rows) : \A c \in Range(t.columns) : ~isnull(t.rows[i].cells[c])}

\* rows is a selection of the rows of t, in their original order without repeats
InOriginalOrder(rows) ==
    \A j, k \in 1..Len(rows) : j < k => rows[j].id < rows[k].id

\* C2: cleanMissing('drop') returns exactly the rows without a missing value, in
\* their original order, so its row count is the original count minus the number
\* of rows with a missing value; cleanMissing('fill') returns a table of the same
\* row count without a missing value, every formerly missing cell being 0 and
\* every other cell unchanged.
C2_CleanMissing ==
    (ret.op = "handle_missing_values" /\ data # None) =>
        /\ ret.args.strategy = "drop" =>
            /\ ret.kind = "DataFrame"
            /\ Len(ret.val.rows) =
                   Len(data.rows) - Cardinality((1..Len(data.rows)) \ CompleteRows(data))
            /\ Range(ret.val.rows) = {data.rows[i] : i \in CompleteRows(data)}
            /\ InOriginalOrder(ret.val.rows)
            /\ ret.val.columns = data.columns
        /\ ret.args.strategy = "fill" =>
            /\ ret.kind = "DataFrame"
            /\ Len(ret.val.rows) = Len(data.rows)
            /\ ret.val.columns = data.columns
            /\ \A i \in 1..Len(data.rows) : \A c \in Range(data.columns) :
                  /\ ~isnull(ret.val.rows[i].cells[c])
                  /\ ret.val.rows[i].id = data.rows[i].id
                  /\ ret.val.rows[i].cells[c] =
                        IF isnull(data.rows[i].cells[c]) THEN Num(0)
                        ELSE data.rows[i].cells[c]

\* a 'drop' that removed a row with one missing cell and kept a complete row
C2_Witness ==
    /\ ret.op = "handle_missing_values"
    /\ ret.args.strategy = "drop"
    /\ data # None
    /\ Len(data.rows) = 2
    /\ Len(ret.val.rows) = 1
    /\ \E i \in 1..2 : \E c, e \in Range(data.columns) :
          isnull(data.rows[i].cells[c]) /\ ~isnull(data.rows[i].cells[e])

\* C3: filter on an existing column returns exactly the rows of the current table
\* whose cell in that column equals the value (a missing cell or value equals
\* nothing), in their original order; on a column that does not exist it returns
\* an absent result.
C3_Filter ==
    (ret.op = "filter_by_column" /\ data # None) =>
        LET column == ret.args.column
            value == ret.args.value
            matching == {i \in 1..Len(data.rows) :
                            /\ data.rows[i].cells[column].k # "na"
                            /\ data.rows[i].cells[column] = value}
        IN IF column \in Range(data.columns)
           THEN /\ ret.kind = "DataFrame"
                /\ Range(ret.val.rows) = {data.rows[i] : i \in matching}
                /\ Len(ret.val.rows) = Cardinality(matching)
                /\ InOriginalOrder(ret.val.rows)
           ELSE ret.kind = "None"

\* a filter that kept one row and left another out
C3_Witness ==
    /\ ret.op = "filter_by_column"
    /\ data # None
    /\ ret.kind = "DataFrame"
    /\ Len(data.rows) = 2
    /\ Len(ret.val.rows) = 1

\* C4: as long as no load has succeeded there is no current table, every load
\* returned an absent result, describe returns an empty result and sample,
\* cleanMissing and filter return an absent result.
C4_NoTable ==
    ~loads.ok =>
        /\ data = None
        /\ ret.kind # "raise"
        /\ ret.op = "get_basic_info" => (ret.kind = "dict" /\ DOMAIN ret.val = {})
        /\ ret.op \in {"load_csv", "show_sample", "handle_missing_values",
                        "filter_by_column"} => ret.kind = "None"

\* describe called after a failed load on a loader that never loaded a table
C4_Witness ==
    /\ ~loads.ok
    /\ loads.failed
    /\ ret.op = "get_basic_info"

\* a step in which load_csv read a table
LoadSucceeds == ret'.op = "load_csv" /\ ret'.kind = "DataFrame"

\* C10: every step other than a successful load leaves the current table
\* unchanged, and cleanMissing with an unknown strategy returns the current table.
C10_OnlyLoadChangesTable ==
    /\ [][LoadSucceeds \/ data' = data]_vars
    /\ []((ret.op = "handle_missing_values" /\ data # None
            /\ ret.args.strategy \notin {"drop", "fill"})
                => (ret.kind = "DataFrame" /\ ret.val = data))

\* a failed load after a successful one: the earlier table is still current
C10_Witness ==
    /\ loads.ok
    /\ ret.op = "load_csv"
    /\ ret.kind = "None"
    /\ data # None
    /\ Len(data.rows) > 0

----------------------------------------------------------------------------
(* Claims about the analyzer, checked under SpecAnalyzer *)

\* C1: detectOutliers, categoricalAnalysis and timeSeriesAnalysis never end in an
\* unhandled error: with an unsupported method, an all-missing numerical or
\* categorical column or a column name that is not in the table, the call
\* returns a fallback value.
C1_NoUnhandledError ==
    ret.op \in {"detect_outliers", "categorical_analysis", "time_series_analysis"}
        => ret.kind # "raise"

\* the calendar day of a date cell of the table the analyzer was given
DayOf(cell) ==
    CASE cell.k = "str" ->
            (IF cell.s \in {"2024-01-01 08:00", "2024-01-01 20:00"} THEN 1 ELSE 2)
      [] cell.k = "ts" -> cell.d
      [] cell.k = "num" -> 0

\* C6: a table returned by timeSeriesAnalysis has exactly one row per distinct
\* calendar day of the date column, in ascending order of the day, whatever the
\* times of day; the row's count is the number of that day's rows with a value,
\* its sum their sum, and its mean the sum divided by the count (missing when
\* the count is 0).
C6_OneRowPerDay ==
    (ret.op = "time_series_analysis" /\ ret.kind = "DataFrame") =>
        LET dc == ret.args.date_column
            vc == ret.args.value_column
            n == Len(given.rows)
            dated == {i \in 1..n : ~isnull(given.rows[i].cells[dc])}
            days == {DayOf(given.rows[i].cells[dc]) : i \in dated}
            valued(day) == {i \in dated : /\ DayOf(given.rows[i].cells[dc]) = day
                                          /\ ~isnull(given.rows[i].cells[vc])}
            total(day) == Sum([i \in 1..n |->
                                  IF i \in valued(day) THEN given.rows[i].cells[vc].n ELSE 0])
            R == ret.val
        IN /\ {R[j].date : j \in 1..Len(R)} = days
           /\ Len(R) = Cardinality(days)
           /\ \A j, k \in 1..Len(R) : j < k => R[j].date < R[k].date
           /\ \A j \in 1..Len(R) :
                /\ R[j].count = Cardinality(valued(R[j].date))
                /\ R[j].sum = total(R[j].date)
                /\ IF R[j].count = 0 THEN isnull(R[j].mean)
                   ELSE /\ R[j].mean.k = "ratio"
                        /\ R[j].mean.q[2] > 0
                        /\ R[j].mean.q[1] * R[j].count = R[j].sum * R[j].mean.q[2]

\* two rows of the same day with different times of day, collapsed into one row
C6_Witness ==
    /\ ret.op = "time_series_analysis"
    /\ ret.kind = "DataFrame"
    /\ ret.args.date_column = "watch_date"
    /\ Len(given.rows) = 2
    /\ given.rows[1].cells["watch_date"] # given.rows[2].cells["watch_date"]
    /\ Len(ret.val) = 1
    /\ ret.val[1].count = 2

\* C7: no analyzer operation changes the caller's table, which stays the table
\* the analyzer was given until the caller changes it, and a change the caller
\* makes to its table does not change the analyzer's table.
C7_IndependentCopy ==
    /\ [][IF callerChanged' # callerChanged
          THEN frames'[selfData'] = frames[selfData]
          ELSE frames'[callerRef] = frames[callerRef]]_vars
    /\ [](~callerChanged => frames[callerRef] = given)

\* the analyzer has converted its date column, the caller has changed its table
\* since, and the two tables differ
C7_Witness ==
    /\ callerChanged
    /\ given.columns = ViewingColumns
    /\ Len(given.rows) > 0
    /\ frames[selfData].dtypes["watch_date"] = "datetime64"
    /\ frames[callerRef].dtypes["watch_date"] = "object"
    /\ frames[callerRef] # given

InList(c, list) == c \in Range(list)

\* C8 as stated: every column of the table is in exactly one of the two sets.
C8_Partition ==
    \A c \in Range(given.columns) :
        InList(c, numerical_cols) # InList(c, categorical_cols)

\* C8 as amended: the two sets are disjoint sets of columns of the table; a
\* column is numerical exactly if its type is numeric and categorical exactly
\* if its type is object, so a boolean or datetime column is in neither.
C8_Classification ==
    /\ Range(numerical_cols) \cap Range(categorical_cols) = {}
    /\ Range(numerical_cols) \cup Range(categorical_cols) \subseteq Range(given.columns)
    /\ \A c \in Range(given.columns) :
          /\ InList(c, numerical_cols) <=> given.dtypes[c] \in {"int64", "float64"}
          /\ InList(c, categorical_cols) <=> given.dtypes[c] = "object"
          /\ given.dtypes[c] \in {"bool", "datetime64"} =>
                ~InList(c, numerical_cols) /\ ~InList(c, categorical_cols)

\* a table with a boolean, a string and a datetime column after an operation
C8_Witness ==
    /\ given.columns = ProfileColumns
    /\ given.dtypes["is_premium"] = "bool"
    /\ given.dtypes["added_on"] = "datetime64"
    /\ categorical_cols = <<"content_genre">>
    /\ ret.op = "categorical_analysis"

\* the call returned the fallback of a column that is not numerical
Rejected ==
    ret.kind = "tuple" /\ ret.val.outliers = <<>> /\ DOMAIN ret.val.stats = {}

\* C9: no operation changes the numerical and categorical sets; categoricalAnalysis
\* profiles exactly the columns that had type object at construction, a converted
\* date column included; detectOutliers rejects a column exactly if it was not
\* numeric at construction.
C9_ClassificationFixed ==
    /\ [][numerical_cols' = numerical_cols /\ categorical_cols' = categorical_cols]_vars
    /\ []((ret.op = "categorical_analysis" /\ ret.kind = "dict") =>
            DOMAIN ret.val = {c \in Range(given.columns) : given.dtypes[c] = "object"})
    /\ [](ret.op = "detect_outliers" =>
            (Rejected <=>
                ~(/\ ret.args.column \in Range(given.columns)
                  /\ given.dtypes[ret.args.column] \in {"int64", "float64"})))

\* categoricalAnalysis profiles the date column that timeSeriesAnalysis converted
C9_Witness ==
    /\ ret.op = "categorical_analysis"
    /\ ret.kind = "dict"
    /\ given.columns = ViewingColumns
    /\ frames[selfData].dtypes["watch_date"] = "datetime64"
    /\ given.dtypes["watch_date"] = "object"
    /\ "watch_date" \in DOMAIN ret.val

----------------------------------------------------------------------------
(* Claims about outlier detection, checked under SpecIqr *)

IsIqrCall ==
    /\ ret.op = "detect_outliers"
    /\ ret.args.method = "iqr"
    /\ ret.args.column = "watch_duration"

ExampleTable == RatingTable([i \in 1..Len(SpecExample) |-> Num(SpecExample[i])])

\* the 'iqr' call on a column with a value returns, flags exactly the rows whose
\* value is strictly outside [Q1 - 1.5*IQR, Q3 + 1.5*IQR] and counts them
IqrFlagsOutside ==
    IsIqrCall =>
        LET t == frames[selfData]
            present == {i \in 1..Len(t.rows) : ~isnull(t.rows[i].cells["watch_duration"])}
            value(i) == t.rows[i].cells["watch_duration"].n
            ns == SeriesDropna(t, "watch_duration")
            Q1x4 == quantile_x4([i \in 1..Len(ns) |-> ns[i].v.n], 1)
            Q3x4 == quantile_x4([i \in 1..Len(ns) |-> ns[i].v.n], 3)
            lower8 == 2 * Q1x4 - 3 * (Q3x4 - Q1x4)
            upper8 == 2 * Q3x4 + 3 * (Q3x4 - Q1x4)
            out == {i \in present : 8 * value(i) < lower8 \/ 8 * value(i) > upper8}
        IN IF present = {} THEN ret.kind = "raise"
           ELSE /\ ret.kind = "tuple"
                /\ ret.val.stats.lower_bound_x8 = lower8
                /\ ret.val.stats.upper_bound_x8 = upper8
                /\ Range(ret.val.outliers) = {t.rows[i].id : i \in out}
                /\ Len(ret.val.outliers) = Cardinality(out)
                /\ ret.val.stats.n_outliers = Cardinality(out)

\* C5 as stated: ... and on {1,2,3,4,5,1000} 1000 is the one outlier and the
\* lower and the upper bound are both positive.
C5_PositiveBounds ==
    /\ IqrFlagsOutside
    /\ (IsIqrCall /\ given = ExampleTable) =>
          /\ ret.kind = "tuple"
          /\ ret.val.outliers = <<5>>
          /\ ret.val.stats.n_outliers = 1
          /\ ret.val.stats.lower_bound_x8 > 0
          /\ ret.val.stats.upper_bound_x8 > 0

\* C5 as amended: ... and on {1,2,3,4,5,1000} 1000 (row 5) is the one outlier,
\* the lower bound is -1.5 and the upper bound 8.5 (the bounds are kept times 8).
C5_IqrOutliers ==
    /\ IqrFlagsOutside
    /\ (IsIqrCall /\ given = ExampleTable) =>
          /\ ret.kind = "tuple"
          /\ ret.val.outliers = <<5>>
          /\ ret.val.stats.n_outliers = 1
          /\ ret.val.stats.lower_bound_x8 = -12
          /\ ret.val.stats.upper_bound_x8 = 68

\* the 'iqr' call on the column {1,2,3,4,5,1000}
C5_Witness ==
    /\ IsIqrCall
    /\ given = ExampleTable
    /\ ret.kind = "tuple"
    /\ ret.val.stats.n_outliers = 1

============================================================================
